---------------------------- MODULE Spec2Model ----------------------------
(***************************************************************************)
(* The masking surface of the image editor (components/ImageEditor.tsx)    *)
(* and the generation service wrapper (services/geminiService.ts).         *)
(*                                                                         *)
(* A raster is a record [width, height, data]; data is the row-major       *)
(* sequence of the pixels' alpha bytes (the drawing surface only ever      *)
(* holds one ink colour per compositing step, and every decision of the    *)
(* code reads the alpha byte or the whole 32-bit pixel, which is zero      *)
(* exactly when alpha is zero).  The mask surface keeps colour and alpha.  *)
(* Indices into `history` are the code's 0-based indices; the TLA+         *)
(* sequence holds history.current[k] at position k + 1.                    *)
(***************************************************************************)
EXTENDS Integers, Sequences, FiniteSets, TLC

\* ------------------------------------------------------------- bounds
\* Snapshots the history may hold (the code's array is unbounded).
MaxHist == 3
\* Collaborator calls issued during one run.
MaxCalls == 1
\* Line segments one path is extended by (pointer moves after its first
\* point).
MaxMoves == 1
\* Strokes begun during one run.
MaxStrokes == 2
\* Container resizes observed during one run.
MaxResizes == 1

\* ----------------------------------------------------- program inputs
\* Native size <<width, height>> of the uploaded image.
ImageSizes == {<<2, 1>>}
\* Sizes <<width, height>> the container's bounding rectangle takes.
ContainerSizes == {<<2, 2>>, <<3, 2>>}
\* Image and container sizes the display rectangle is computed for.
GeometryImages == {<<2, 1>>, <<3, 2>>, <<9, 7>>, <<15, 11>>}
GeometryContainers == {<<w, h>> : w \in {2, 3, 9, 15}, h \in {2, 8, 11}}
\* The prompt texts typed into the textarea, as sequences of characters.
Prompts == {<<>>, <<" ">>, <<"a">>}
\* What the generation service answers.
Outcomes == {"image", "noImage", "blocked", "transport"}
\* What the FileReader of fileToBase64 answers.
ReadOutcomes == {"loaded", "failed"}
\* Whether process.env.API_KEY is set when editImageWithMask reads it.
Credentials == BOOLEAN

\* --------------------------------------------------------- constants
\* A canvas element without width/height attributes (300 x 150 in HTML),
\* scaled to the model's pixel grid.
DefaultCanvasSize == <<2, 1>>
\* The alpha byte of 'rgba(255, 0, 255, 0.7)' and of 'rgba(0,0,0,1)'.
BrushAlpha == 179
EraserAlpha == 255
Opaque == 255

VARIABLES
    history,        \* history.current : sequence of ImageData
    historyIndex,   \* historyIndex.current
    drawingCanvas,  \* the drawing canvas' bitmap
    imageCanvas,    \* the image canvas' <<width, height>>
    gco,            \* drawing context: globalCompositeOperation
    path,           \* drawing context: current path [pen, cover]
    moves,          \* segments of the context's current path
    strokes,        \* strokes begun so far
    resizes,        \* container resizes observed so far
    isDrawing, tool, prompt, isLoading, error,   \* React state
    undoDisabled,   \* the Undo button's disabled attribute as last rendered
    mounted,        \* the editor is on the page (App shows it)
    imageLoaded,    \* image.current.complete with naturalWidth > 0
    natural,        \* <<naturalWidth, naturalHeight>> of the file's image
    container,      \* the container's bounding rectangle <<width, height>>
    encoding,       \* handleGenerate runs awaiting fileToBase64
    inflight,       \* generateContent calls started and not resolved
    maskBase64,     \* the mask data URL built by the latest submission
    request,        \* the mask part of the latest generateContent call
    calls,          \* generateContent calls issued
    editedImage,    \* what onEditComplete was given (App state)
    delivered,      \* how many times onEditComplete was called
    clearTrail,     \* observer: a clear followed by an undo
    undoTrail       \* observer: strokes after load, then undos

vars == <<history, historyIndex, drawingCanvas, imageCanvas, gco, path, moves,
          strokes, resizes,
          isDrawing, tool, prompt, isLoading, error, undoDisabled, mounted,
          imageLoaded, natural, container, encoding, inflight,
          maskBase64, request, calls, editedImage, delivered,
          clearTrail, undoTrail>>

\* ------------------------------------------------------------ rasters
Blank(w, h) == [width |-> w, height |-> h, data |-> [i \in 1..(w * h) |-> 0]]

\* What history.current[k] is when k is no index of the array.
Undefined == [width |-> 0, height |-> 0, data |-> <<>>]

Px(img, x, y) == img.data[y * img.width + x + 1]

XOf(i, w) == (i - 1) % w

YOf(i, w) == (i - 1) \div w

SetMax(S) == CHOOSE m \in S : \A n \in S : n <= m

Min(a, b) == IF a <= b THEN a ELSE b

Max(a, b) == IF a >= b THEN a ELSE b

\* pixelBuffer.some(color => color !== 0) is false
IsTransparent(img) == \A i \in 1..Len(img.data) : img.data[i] = 0

HasInk(img) == \E i \in 1..Len(img.data) : img.data[i] > 0

\* 'source-over' and 'destination-out' on the alpha byte.
SourceOver(sa, da) == sa + (da * (255 - sa) + 127) \div 255

DestinationOut(sa, da) == (da * (255 - sa) + 127) \div 255

Composite(op, sa, da) ==
    IF op = "source-over" THEN SourceOver(sa, da) ELSE DestinationOut(sa, da)

\* drawImage(src, 0, 0, dw, dh) of a whole source onto a cleared surface:
\* a destination pixel blends the source pixels its footprint overlaps
\* (image smoothing), so it carries ink exactly when one of them does.
Scale(img, dw, dh) ==
    [width |-> dw, height |-> dh,
     data |-> [i \in 1..(dw * dh) |->
        LET x == XOf(i, dw)
            y == YOf(i, dw)
            xlo == (x * img.width) \div dw
            xhi == ((x + 1) * img.width + dw - 1) \div dw - 1
            ylo == (y * img.height) \div dh
            yhi == ((y + 1) * img.height + dh - 1) \div dh - 1
        IN SetMax({Px(img, sx, sy) : sx \in xlo..xhi, sy \in ylo..yhi})]]

\* ctx.clearRect(0, 0, canvas.width, canvas.height)
ClearRect(cv) == Blank(cv.width, cv.height)

\* ctx.putImageData(img, 0, 0): the pixels are copied unscaled from the
\* origin; what lies outside the canvas is dropped, what the image does not
\* cover is left alone.
PutImageData(cv, img) ==
    [cv EXCEPT !.data = [i \in 1..(cv.width * cv.height) |->
        LET x == XOf(i, cv.width)
            y == YOf(i, cv.width)
        IN IF x < img.width /\ y < img.height THEN Px(img, x, y) ELSE cv.data[i]]]

\* ctx.getImageData(0, 0, canvas.width, canvas.height)
GetImageData(cv) == cv

\* history.current[k]
At(h, k) == IF k >= 0 /\ k < Len(h) THEN h[k + 1] ELSE Undefined

Current == At(history, historyIndex)

\* --------------------------------------------------- history store
\* Array.prototype.splice(start) with start >= 0: drop what lies at or
\* after start.
Splice(h, start) == SubSeq(h, 1, Min(start, Len(h)))

\* saveToHistory with the cursor set to the array's length.
SaveToHistoryPastEnd(h, idx, cv) ==
    LET pushed == Append(Splice(h, idx + 1), GetImageData(cv))
    IN [history |-> pushed, historyIndex |-> Len(pushed)]

\* saveToHistory without its last line: the cursor stays where it was.
SaveToHistoryKeepsCursor(h, idx, cv) ==
    LET pushed == Append(Splice(h, idx + 1), GetImageData(cv))
    IN [history |-> pushed, historyIndex |-> idx]

\* saveToHistory: the array and the cursor after pushing the canvas' pixels.
SaveToHistory(h, idx, cv) ==
    LET pushed == Append(Splice(h, idx + 1), GetImageData(cv))
    IN [history |-> pushed, historyIndex |-> Len(pushed) - 1]

\* handleUndo guarded by historyIndex.current >= 0
CanUndoAtZero(idx) == idx >= 0

\* handleUndo's guard: historyIndex.current > 0
CanUndo(idx) == idx > 0

\* -------------------------------------------------- display geometry
\* JavaScript numbers are IEEE 754 doubles: every division and multiplication
\* of resizeCanvases is rounded to 53 significant bits.  A double is kept as
\* [m, e], the value m * 2^e with 2^52 <= m < 2^53; m is beyond the integers
\* of the checker, so it is a sequence of limbs, least significant first.
MantissaBits == 53

LimbBits == 15

Limb == 2 ^ LimbBits

RECURSIVE BigOf(_)
BigOf(n) == IF n = 0 THEN <<>> ELSE <<n % Limb>> \o BigOf(n \div Limb)

RECURSIVE BigInt(_)
BigInt(x) == IF x = <<>> THEN 0 ELSE x[1] + Limb * BigInt(Tail(x))

RECURSIVE BigTrim(_)
BigTrim(x) ==
    IF x # <<>> /\ x[Len(x)] = 0 THEN BigTrim(SubSeq(x, 1, Len(x) - 1)) ELSE x

RECURSIVE BigLessFrom(_, _, _)
BigLessFrom(x, y, i) ==
    IF i = 0 THEN FALSE
    ELSE IF x[i] # y[i] THEN x[i] < y[i]
    ELSE BigLessFrom(x, y, i - 1)

BigLess(x, y) ==
    IF Len(x) # Len(y) THEN Len(x) < Len(y) ELSE BigLessFrom(x, y, Len(x))

\* x * k + carry from limb i on, for k below Limb
RECURSIVE BigTimesFrom(_, _, _, _)
BigTimesFrom(x, k, i, carry) ==
    IF i > Len(x) THEN BigOf(carry)
    ELSE LET t == x[i] * k + carry
         IN <<t % Limb>> \o BigTimesFrom(x, k, i + 1, t \div Limb)

BigTimes(x, k) == BigTrim(BigTimesFrom(x, k, 1, 0))

BigPlus(x, k) == BigTrim(BigTimesFrom(x, 1, 1, k))

\* x - y from limb i on, for y <= x
RECURSIVE BigMinusFrom(_, _, _, _)
BigMinusFrom(x, y, i, borrow) ==
    IF i > Len(x) THEN <<>>
    ELSE LET t == x[i] - (IF i <= Len(y) THEN y[i] ELSE 0) - borrow
         IN <<(t + Limb) % Limb>>
              \o BigMinusFrom(x, y, i + 1, IF t < 0 THEN 1 ELSE 0)

BigMinus(x, y) == BigTrim(BigMinusFrom(x, y, 1, 0))

\* x \div 2^k: whole limbs are dropped, the rest is shifted within the limbs
BigShiftRight(x, k) ==
    LET drop == Min(k \div LimbBits, Len(x))
        y == SubSeq(x, drop + 1, Len(x))
        low == 2 ^ (k % LimbBits)
    IN BigTrim([i \in 1..Len(y) |->
          y[i] \div low + (IF i < Len(y) THEN (y[i + 1] % low) * (Limb \div low) ELSE 0)])

BigTwoTo(k) ==
    [i \in 1..(k \div LimbBits + 1) |->
        IF i = k \div LimbBits + 1 THEN 2 ^ (k % LimbBits) ELSE 0]

\* num / den scaled by a power of two into 1 <= num / den < 2
RECURSIVE Normal(_, _, _)
Normal(num, den, e) ==
    IF Len(num) + 1 < Len(den) THEN Normal(<<0>> \o num, den, e - LimbBits)
    ELSE IF Len(den) + 1 < Len(num) THEN Normal(num, <<0>> \o den, e + LimbBits)
    ELSE IF BigLess(num, den) THEN Normal(BigTimes(num, 2), den, e - 1)
    ELSE IF ~BigLess(num, BigTimes(den, 2)) THEN Normal(num, BigTimes(den, 2), e + 1)
    ELSE [num |-> num, den |-> den, e |-> e]

\* Long division of num / den, one bit at a time, until the bits m make a
\* whole mantissa; rest is twice what is left of num
RECURSIVE Quotient(_, _, _)
Quotient(num, den, m) ==
    IF ~BigLess(m, BigTwoTo(MantissaBits - 1)) THEN [m |-> m, rest |-> num]
    ELSE IF BigLess(num, den)
    THEN Quotient(BigTimes(num, 2), den, BigTimes(m, 2))
    ELSE Quotient(BigTimes(BigMinus(num, den), 2), den, BigPlus(BigTimes(m, 2), 1))

\* Rounding to nearest, ties to the even mantissa: whether the mantissa of
\* the quotient q goes up, given what is left over against the divisor den
RoundsUp(den, q) ==
    \/ BigLess(den, q.rest)
    \/ q.rest = den /\ q.m[1] % 2 = 1

Nearest(den, q) == IF RoundsUp(den, q) THEN BigPlus(q.m, 1) ELSE q.m

\* The double of mantissa m, a carry out of the mantissa renormalised
Rounded(m, e) ==
    IF m = BigTwoTo(MantissaBits)
    THEN [m |-> BigTwoTo(MantissaBits - 1), e |-> e - (MantissaBits - 1) + 1]
    ELSE [m |-> m, e |-> e - (MantissaBits - 1)]

RoundNormal(n) == Rounded(Nearest(n.den, Quotient(n.num, n.den, <<>>)), n.e)

\* The double nearest to num / den
RoundToDouble(num, den) == RoundNormal(Normal(num, den, 0))

\* a / b of two integers
DoubleRatio(a, b) == RoundToDouble(BigOf(a), BigOf(b))

\* The double r with its exponent moved by e
Scaled(r, e) == [m |-> r.m, e |-> r.e + e]

\* n / d and n * d of an integer n and a double d
DoubleOver(n, d) == Scaled(RoundToDouble(BigOf(n), d.m), -d.e)

DoubleTimes(n, d) == Scaled(RoundToDouble(BigTimes(d.m, n), <<1>>), d.e)

\* a > b
DoubleGreater(a, b) == IF a.e # b.e THEN a.e > b.e ELSE BigLess(b.m, a.m)

\* canvas.width = d: the conversion to unsigned long drops the fraction
ToUnsignedLong(d) ==
    IF d.e >= 0 THEN BigInt(BigTimes(d.m, 2 ^ d.e))
    ELSE IF -d.e >= MantissaBits THEN 0
    ELSE BigInt(BigShiftRight(d.m, -d.e))

\* resizeCanvases: the width and height the two canvases end up with
ResizeCanvases(nat, cont) ==
    LET imageAspectRatio == DoubleRatio(nat[1], nat[2])
        containerAspectRatio == DoubleRatio(cont[1], cont[2])
    IN IF DoubleGreater(imageAspectRatio, containerAspectRatio)
       THEN <<cont[1], ToUnsignedLong(DoubleOver(cont[1], imageAspectRatio))>>
       ELSE <<ToUnsignedLong(DoubleTimes(cont[2], imageAspectRatio)), cont[2]>>

\* resizeCanvases over the sizes the model runs on, computed once
RenderSizes ==
    {<<nat, cont, ResizeCanvases(nat, cont)>> :
        nat \in ImageSizes \cup GeometryImages,
        cont \in ContainerSizes \cup GeometryContainers}

\* resizeCanvases: renderWidth and renderHeight as the canvases keep them
\* (a canvas dimension is an integer: the fraction is dropped).
RenderSize(nat, cont) ==
    (CHOOSE r \in RenderSizes : r[1] = nat /\ r[2] = cont)[3]

\* The drawing surface after resizeCanvases: assigning width/height clears
\* the bitmap, then the current snapshot, if any, is drawn scaled.
Reproject(lastMask, size) ==
    IF lastMask # Undefined
    THEN Scale(lastMask, size[1], size[2])
    ELSE Blank(size[1], size[2])

\* A guard that lets every observed resize through
ImageReadyAlways == TRUE

\* The observer's guard and resizeCanvases' own: the image is complete and
\* its naturalWidth is not 0.
ImageReady == imageLoaded

\* Assigning canvas.width resets the context: no path, 'source-over'.
NoPath == [pen |-> 0, cover |-> {}]

\* ----------------------------------------------------------- strokes
Pixels(cv) == 1..(cv.width * cv.height)

\* The pixels a round-capped line from pixel p to pixel q lays ink on.
Box(p, q, w) ==
    {i \in 1..Max(p, q) :
        /\ XOf(i, w) >= Min(XOf(p, w), XOf(q, w))
        /\ XOf(i, w) <= Max(XOf(p, w), XOf(q, w))
        /\ YOf(i, w) >= Min(YOf(p, w), YOf(q, w))
        /\ YOf(i, w) <= Max(YOf(p, w), YOf(q, w))}

\* ctx.beginPath(); ctx.moveTo(x, y)
MoveTo(p) == [pen |-> p, cover |-> {}]

\* ctx.lineTo(x, y): on a path without a point it only sets the point.
LineTo(pth, p, w) ==
    IF pth.pen = 0 THEN [pen |-> p, cover |-> pth.cover]
    ELSE [pen |-> p, cover |-> pth.cover \cup Box(pth.pen, p, w)]

\* draw: strokeStyle by the tool
StrokeAlpha(t) == IF t = "brush" THEN BrushAlpha ELSE EraserAlpha

\* startDrawing: globalCompositeOperation by the tool
CompositeFor(t) == IF t = "brush" THEN "source-over" ELSE "destination-out"

\* The bitmap keeps an alpha byte by its class: transparent (0) or not, for
\* which the brush's own alpha stands.  Every test in the code (alpha > 0,
\* pixel !== 0) reads the class only.
Quantize(a) == IF a = 0 THEN 0 ELSE BrushAlpha

\* ctx.stroke(): the whole current path is composited onto the bitmap.
Stroke(cv, pth, op, sa) ==
    [cv EXCEPT !.data = [i \in Pixels(cv) |->
        IF i \in pth.cover
        THEN Quantize(Composite(op, sa, cv.data[i]))
        ELSE cv.data[i]]]

\* ------------------------------------------------------- text, errors
IsSpace(c) == c = " "

RECURSIVE TrimStart(_)
TrimStart(s) ==
    IF s # <<>> /\ IsSpace(Head(s)) THEN TrimStart(Tail(s)) ELSE s

RECURSIVE TrimEnd(_)
TrimEnd(s) ==
    IF s # <<>> /\ IsSpace(s[Len(s)]) THEN TrimEnd(SubSeq(s, 1, Len(s) - 1)) ELSE s

\* The prompt tested as typed, without trim()
TrimNothing(s) == s

\* String.prototype.trim
Trim(s) == TrimEnd(TrimStart(s))

\* setError(null)
NoError == <<>>

PromptError == <<"Please enter a description for the edit.">>

MaskError == <<"Please draw a mask on the image to indicate the area to be edited.">>

\* getImageData on a 0 x 0 mask canvas throws; a DOMException is an Error.
IndexSizeError == <<"IndexSizeError">>

UnknownError == <<"An unknown error occurred.">>

ApiKeyError == <<"API_KEY environment variable is not set. Please set it in your environment.">>

SafetyRatings == "[{category, probability}]"

\* The Error thrown when the response carries no image.
NoImageError(ratings) ==
    <<"No image was generated. The response may have been blocked due to safety policies.">>
    \o (IF ratings # "" THEN <<" Safety feedback: ", ratings>> ELSE <<>>)

\* A catch that re-throws its own text only
WrappedBare(msg) == <<"Failed to edit image: ">>

\* The service's catch: every failure inside its try is re-thrown wrapped.
Wrapped(msg) == <<"Failed to edit image: ">> \o msg

\* A service that fails without a message
ServiceErrorSilent(o) == <<>>

\* The message the service ends with for each answer that is no image.
ServiceError(o) ==
    IF o = "noImage" THEN Wrapped(NoImageError(""))
    ELSE IF o = "blocked" THEN Wrapped(NoImageError(SafetyRatings))
    ELSE Wrapped(<<"fetch failed">>)

\* -------------------------------------------------------------- mask
\* A mask canvas sized as the drawing canvas is
DisplaySeen == <<drawingCanvas.width, drawingCanvas.height>>

\* image.current.naturalWidth / naturalHeight (0 until the image loaded)
NaturalSeen == IF imageLoaded THEN natural ELSE <<0, 0>>

\* fillStyle = 'black'; fillRect over the whole mask canvas
FillBlack(w, h) ==
    [width |-> w, height |-> h,
     data |-> [i \in 1..(w * h) |-> [rgb |-> "black", a |-> Opaque]]]

\* maskCtx.drawImage(tempHistoryCanvas, 0, 0, w, h): source-over onto the
\* filled surface.
DrawOnto(mask, snapshot) ==
    IF snapshot = Undefined THEN mask
    ELSE LET scaled == Scale(snapshot, mask.width, mask.height)
         IN [mask EXCEPT !.data = [i \in 1..Len(mask.data) |->
                IF scaled.data[i] = 0 THEN mask.data[i]
                ELSE [rgb |-> "ink", a |-> SourceOver(scaled.data[i], mask.data[i].a)]]]

\* The loop over the mask's pixels: alpha > 0 becomes white.
Binarize(mask) ==
    [mask EXCEPT !.data = [i \in 1..Len(mask.data) |->
        IF mask.data[i].a > 0 THEN [rgb |-> "white", a |-> mask.data[i].a]
        ELSE mask.data[i]]]

\* handleGenerate's mask: fill, draw the current snapshot, binarize.
BuildMask(snapshot, size) == Binarize(DrawOnto(FillBlack(size[1], size[2]), snapshot))

\* canvas.toDataURL('image/png'): header, then the losslessly encoded pixels
ToDataURL(mask) == [header |-> "data:image/png;base64", payload |-> mask]

NoMask == [header |-> "", payload |-> Undefined]

\* fileDataToBase64: what follows the first comma
FileDataToBase64(url) == url.payload

\* maskImagePart of editImageWithMask
MaskImagePart(url) ==
    [data |-> FileDataToBase64(url), mimeType |-> "image/png"]

NoRequest == [data |-> Undefined, mimeType |-> ""]

\* ---------------------------------------------------------- observers
NoTrail == [stage |-> 0, snap |-> Undefined]

DeadTrail == [ok |-> FALSE, strokes |-> 0, undos |-> 0]

\* React renders again after a handler that changed state; the Undo button's
\* disabled attribute is computed from the ref at that moment.
Rendered ==
    undoDisabled' =
        IF <<isDrawing, tool, prompt, isLoading, error>>'
             # <<isDrawing, tool, prompt, isLoading, error>>
        THEN historyIndex' <= 0
        ELSE undoDisabled

Env == <<mounted, imageLoaded, natural, container>>
Budget == <<strokes, resizes>>
Net == <<encoding, inflight, maskBase64, request, calls, editedImage, delivered>>
Form == <<tool, prompt, isLoading, error>>
Store == <<history, historyIndex>>
Surface == <<drawingCanvas, imageCanvas>>
Context == <<gco, path>>

\* ------------------------------------------------------------- state
\* The editor as mounted, for an image and a container among the given sizes
Start(images, containers) ==
    /\ history = <<>>
    /\ historyIndex = -1
    /\ drawingCanvas = Blank(DefaultCanvasSize[1], DefaultCanvasSize[2])
    /\ imageCanvas = DefaultCanvasSize
    /\ gco = "source-over"
    /\ path = NoPath
    /\ moves = 0
    /\ strokes = 0
    /\ resizes = 0
    /\ isDrawing = FALSE
    /\ tool = "brush"
    /\ prompt = <<>>
    /\ isLoading = FALSE
    /\ error = NoError
    /\ undoDisabled = TRUE
    /\ mounted = TRUE
    /\ imageLoaded = FALSE
    /\ natural \in images
    /\ container \in containers
    /\ encoding = 0
    /\ inflight = 0
    /\ maskBase64 = NoMask
    /\ request = NoRequest
    /\ calls = 0
    /\ editedImage = ""
    /\ delivered = 0
    /\ clearTrail = NoTrail
    /\ undoTrail = DeadTrail

Init == Start(ImageSizes, ContainerSizes)

\* image.current.onload: resizeCanvases(), then saveToHistory()
ImageLoad ==
    /\ mounted /\ ~imageLoaded
    /\ Min(historyIndex + 1, Len(history)) < MaxHist
    /\ imageLoaded' = TRUE
    /\ LET size == RenderSize(natural, container)
           cv == Reproject(Current, size)
           saved == SaveToHistory(history, historyIndex, cv)
       IN /\ imageCanvas' = size
          /\ drawingCanvas' = cv
          /\ history' = saved.history
          /\ historyIndex' = saved.historyIndex
          /\ undoTrail' = [ok |-> Len(saved.history) = 1, strokes |-> 0, undos |-> 0]
    /\ gco' = "source-over"
    /\ path' = NoPath
    /\ moves' = 0
    /\ clearTrail' = NoTrail
    /\ UNCHANGED <<Budget, isDrawing, Form, undoDisabled, mounted, natural,
                   container, Net>>

\* An observer callback that also saves the redrawn surface, as onload does
ResizeAndSave(c) ==
    /\ mounted /\ c # container
    /\ resizes < MaxResizes
    /\ resizes' = resizes + 1
    /\ container' = c
    /\ IF ImageReady
       THEN LET size == RenderSize(natural, c)
                cv == Reproject(Current, size)
                saved == SaveToHistory(history, historyIndex, cv)
            IN /\ imageCanvas' = size
               /\ drawingCanvas' = cv
               /\ history' = saved.history
               /\ historyIndex' = saved.historyIndex
               /\ gco' = "source-over"
               /\ path' = NoPath
               /\ moves' = 0
       ELSE UNCHANGED <<Store, Surface, Context, moves>>
    /\ clearTrail' = NoTrail
    /\ undoTrail' = DeadTrail
    /\ UNCHANGED <<strokes, isDrawing, Form, undoDisabled, mounted,
                   imageLoaded, natural, Net>>

\* The ResizeObserver's callback: resizeCanvases() once the image is there.
Resize(c) ==
    /\ mounted /\ c # container
    /\ resizes < MaxResizes
    /\ resizes' = resizes + 1
    /\ container' = c
    /\ IF ImageReady
       THEN LET size == RenderSize(natural, c)
            IN /\ imageCanvas' = size
               /\ drawingCanvas' = Reproject(Current, size)
               /\ gco' = "source-over"
               /\ path' = NoPath
               /\ moves' = 0
       ELSE UNCHANGED <<Surface, Context, moves>>
    /\ clearTrail' = NoTrail
    /\ undoTrail' = DeadTrail
    /\ UNCHANGED <<Store, strokes, isDrawing, Form, undoDisabled, mounted,
                   imageLoaded, natural, Net>>

\* startDrawing at pixel p of the drawing canvas
StartDrawing(p) ==
    /\ mounted
    /\ strokes < MaxStrokes
    /\ strokes' = strokes + 1
    /\ isDrawing' = TRUE
    /\ gco' = CompositeFor(tool)
    /\ path' = MoveTo(p)
    /\ moves' = 0
    /\ clearTrail' = NoTrail
    /\ undoTrail' = IF undoTrail.ok /\ undoTrail.undos = 0 THEN undoTrail ELSE DeadTrail
    /\ UNCHANGED <<Store, Surface, resizes, Form, Env, Net>>
    /\ Rendered

\* draw at pixel p: lineTo, then stroke the whole path.  On a path without a
\* point (the context was reset under the stroke) lineTo adds no segment.
Draw(p) ==
    /\ mounted /\ isDrawing
    /\ moves < MaxMoves
    /\ moves' = IF path.pen = 0 THEN moves ELSE moves + 1
    /\ path' = LineTo(path, p, drawingCanvas.width)
    /\ drawingCanvas' = Stroke(drawingCanvas, path', gco, StrokeAlpha(tool))
    /\ clearTrail' = NoTrail
    /\ UNCHANGED <<Store, imageCanvas, gco, Budget, isDrawing, Form, undoDisabled,
                   Env, Net, undoTrail>>

\* stopDrawing: closePath, setIsDrawing(false), saveToHistory().  The path and
\* the compositing mode stay in the context after closePath() but are dead:
\* draw() returns unless isDrawing, and startDrawing assigns both anew, so the
\* model forgets them here.
StopDrawing ==
    /\ mounted /\ isDrawing
    /\ Min(historyIndex + 1, Len(history)) < MaxHist
    /\ isDrawing' = FALSE
    /\ moves' = 0
    /\ LET saved == SaveToHistory(history, historyIndex, drawingCanvas)
       IN /\ history' = saved.history
          /\ historyIndex' = saved.historyIndex
    /\ clearTrail' = NoTrail
    /\ undoTrail' = IF undoTrail.ok /\ undoTrail.undos = 0
                    THEN [undoTrail EXCEPT !.strokes = @ + 1]
                    ELSE DeadTrail
    /\ gco' = "source-over"
    /\ path' = NoPath
    /\ UNCHANGED <<Surface, Budget, Form, Env, Net>>
    /\ Rendered

\* The Undo button (enabled as last rendered): handleUndo
Undo ==
    /\ mounted /\ ~undoDisabled
    /\ IF CanUndo(historyIndex)
       THEN /\ historyIndex' = historyIndex - 1
            /\ LET imageData == At(history, historyIndex - 1)
               IN drawingCanvas' =
                    IF imageData # Undefined
                    THEN PutImageData(ClearRect(drawingCanvas), imageData)
                    ELSE drawingCanvas
       ELSE UNCHANGED <<historyIndex, drawingCanvas>>
    /\ clearTrail' = IF clearTrail.stage = 1
                     THEN [clearTrail EXCEPT !.stage = 2] ELSE NoTrail
    /\ undoTrail' = IF undoTrail.ok /\ ~isDrawing /\ undoTrail.undos < undoTrail.strokes
                    THEN [undoTrail EXCEPT !.undos = @ + 1]
                    ELSE DeadTrail
    /\ UNCHANGED <<history, imageCanvas, Context, moves, Budget, isDrawing, Form,
                   undoDisabled, Env, Net>>

\* The Clear Mask button: clearMask
ClearMask ==
    /\ mounted
    /\ LET imageData == At(history, 0)
           cv == PutImageData(ClearRect(drawingCanvas), imageData)
           saved == SaveToHistory(history, 0, cv)
       IN IF imageData # Undefined
          THEN /\ drawingCanvas' = cv
               /\ history' = saved.history
               /\ historyIndex' = saved.historyIndex
          ELSE /\ historyIndex' = 0
               /\ UNCHANGED <<drawingCanvas, history>>
    /\ clearTrail' = IF imageLoaded THEN [stage |-> 1, snap |-> Current] ELSE NoTrail
    /\ undoTrail' = DeadTrail
    /\ UNCHANGED <<imageCanvas, Context, moves, Budget, isDrawing, Form,
                   undoDisabled, Env, Net>>

\* The brush and eraser buttons: setTool.  The buttons are pressed between
\* strokes (one pointer: it is on the canvas while a stroke is in progress).
SetTool(t) ==
    /\ mounted /\ t # tool /\ ~isDrawing
    /\ tool' = t
    /\ clearTrail' = NoTrail
    /\ UNCHANGED <<Store, Surface, Context, moves, Budget, isDrawing, prompt,
                   isLoading, error, Env, Net, undoTrail>>
    /\ Rendered

\* The textarea (disabled while loading): setPrompt
SetPrompt(s) ==
    /\ mounted /\ ~isLoading /\ s # prompt
    /\ prompt' = s
    /\ clearTrail' = NoTrail
    /\ undoTrail' = DeadTrail
    /\ UNCHANGED <<Store, Surface, Context, moves, Budget, isDrawing, tool,
                   isLoading, error, Env, Net>>
    /\ Rendered

\* A Generate button that is never disabled
CanSubmitAlways == TRUE

\* The Generate button's disabled={isLoading}
CanSubmit == ~isLoading

\* A catch without the finally: the loading flag stays as it was
FailKeepsLoading(msg) ==
    /\ error' = msg
    /\ isLoading' = isLoading

\* catch: setError(message); finally: setIsLoading(false)
Fail(msg) ==
    /\ error' = msg
    /\ isLoading' = FALSE

\* handleGenerate up to its first await
HandleGenerate ==
    /\ mounted /\ CanSubmit
    /\ IF Trim(prompt) = <<>>
       THEN /\ error' = PromptError
            /\ UNCHANGED <<isLoading, encoding, maskBase64>>
       ELSE IF IsTransparent(GetImageData(drawingCanvas))
       THEN /\ error' = MaskError
            /\ UNCHANGED <<isLoading, encoding, maskBase64>>
       ELSE IF NaturalSeen[1] = 0 \/ NaturalSeen[2] = 0
       THEN /\ Fail(IndexSizeError)
            /\ UNCHANGED <<encoding, maskBase64>>
       ELSE /\ error' = NoError
            /\ isLoading' = TRUE
            /\ maskBase64' = ToDataURL(BuildMask(Current, NaturalSeen))
            /\ encoding' = encoding + 1
    /\ clearTrail' = NoTrail
    /\ undoTrail' = DeadTrail
    /\ UNCHANGED <<Store, Surface, Context, moves, Budget, isDrawing, tool,
                   prompt, Env, inflight, request, calls, editedImage, delivered>>
    /\ Rendered

\* fileToBase64 settles; on success editImageWithMask runs up to its await,
\* finding the credential set (key) or not
FileRead(o, key) ==
    /\ encoding > 0
    /\ encoding' = encoding - 1
    /\ IF o = "failed"
       THEN /\ Fail(UnknownError)
            /\ UNCHANGED <<inflight, request, calls>>
       ELSE IF ~key
       THEN /\ Fail(ApiKeyError)
            /\ UNCHANGED <<inflight, request, calls>>
       ELSE /\ calls < MaxCalls
            /\ inflight' = inflight + 1
            /\ calls' = calls + 1
            /\ request' = MaskImagePart(maskBase64)
            /\ UNCHANGED <<error, isLoading>>
    /\ clearTrail' = NoTrail
    /\ undoTrail' = DeadTrail
    /\ UNCHANGED <<Store, Surface, Context, moves, Budget, isDrawing, tool,
                   prompt, Env, maskBase64, editedImage, delivered>>
    /\ Rendered

\* generateContent settles with answer o
Resolve(o) ==
    /\ inflight > 0
    /\ inflight' = inflight - 1
    /\ IF o = "image"
       THEN /\ editedImage' = "data:image/png;base64,bytes"
            /\ delivered' = delivered + 1
            /\ mounted' = FALSE
            /\ isLoading' = FALSE
            /\ UNCHANGED error
       ELSE /\ Fail(ServiceError(o))
            /\ UNCHANGED <<editedImage, delivered, mounted>>
    /\ clearTrail' = NoTrail
    /\ undoTrail' = DeadTrail
    /\ UNCHANGED <<Store, Surface, Context, moves, Budget, isDrawing, tool,
                   prompt, imageLoaded, natural, container,
                   encoding, maskBase64, request, calls>>
    /\ Rendered

Next ==
    \/ ImageLoad
    \/ \E c \in ContainerSizes : Resize(c)
    \/ \E p \in Pixels(drawingCanvas) : StartDrawing(p)
    \/ \E p \in Pixels(drawingCanvas) : Draw(p)
    \/ StopDrawing
    \/ Undo
    \/ ClearMask
    \/ \E t \in {"brush", "eraser"} : SetTool(t)
    \/ \E s \in Prompts : SetPrompt(s)
    \/ HandleGenerate
    \/ \E o \in ReadOutcomes, key \in Credentials : FileRead(o, key)
    \/ \E o \in Outcomes : Resolve(o)

Spec == Init /\ [][Next]_vars

\* The display geometry alone: the image loads and the container is resized,
\* over a wider range of image and container sizes.
InitGeometry == Start(GeometryImages, GeometryContainers)

NextGeometry ==
    \/ ImageLoad
    \/ \E c \in GeometryContainers : Resize(c)

SpecGeometry == InitGeometry /\ [][NextGeometry]_vars

\* ============================================================== claims

\* The binary mask the specification describes for a snapshot: at the image's
\* native size, white where the scaled snapshot carries ink, black elsewhere.
IsBinaryMaskOf(mask, snapshot, size) ==
    /\ mask.width = size[1]
    /\ mask.height = size[2]
    /\ \A i \in 1..Len(mask.data) :
          LET ink == snapshot # Undefined
                       /\ Scale(snapshot, size[1], size[2]).data[i] > 0
          IN mask.data[i] = [rgb |-> IF ink THEN "white" ELSE "black", a |-> Opaque]

\* C1: the mask a submission builds for the collaborator is white exactly
\* where the current snapshot, scaled to the native size, has non-zero alpha,
\* and black everywhere else.
C1_MaskFollowsInk ==
    [][(~isLoading /\ isLoading')
         => IsBinaryMaskOf(maskBase64'.payload, Current, natural)]_vars

\* Two snapshots show the same picture on the drawing surface.
SamePicture(a, b) ==
    Scale(a, drawingCanvas.width, drawingCanvas.height)
      = Scale(b, drawingCanvas.width, drawingCanvas.height)

\* C2: after image load, a clear followed by an undo leaves the cursor on the
\* snapshot that was current just before the clear: the picture under the
\* cursor is the pre-clear picture again.
C2_UndoAfterClearRestores ==
    clearTrail.stage = 2 => SamePicture(Current, clearTrail.snap)

\* C3: from the history as initialized at image load (one snapshot), N
\* completed strokes followed by N undos leave the cursor at 0 on the blank
\* initial snapshot, which the drawing surface shows; the cursor is never
\* below 0 on the way.
C3_UndoAllStrokes ==
    undoTrail.ok =>
        /\ historyIndex >= 0
        /\ (undoTrail.undos = undoTrail.strokes /\ ~isDrawing) =>
              /\ historyIndex = 0
              /\ IsTransparent(history[1])
              /\ drawingCanvas = history[1]

C3_Witness ==
    /\ undoTrail.ok
    /\ undoTrail.strokes >= 2
    /\ undoTrail.undos = undoTrail.strokes
    /\ ~isDrawing
    /\ Len(history) >= 3
    /\ HasInk(history[2])
    /\ HasInk(history[3])

\* C4: when a stroke completes with the cursor at c, the history becomes the
\* old snapshots 0..c followed by the new one, and the cursor is c + 1, the
\* last index.
C4_PushIsLinear ==
    [][(isDrawing /\ ~isDrawing') =>
          /\ Len(history') = historyIndex + 2
          /\ \A k \in 0..historyIndex :
                k < Len(history) /\ history'[k + 1] = history[k + 1]
          /\ history'[Len(history')] = drawingCanvas
          /\ historyIndex' = historyIndex + 1
          /\ historyIndex' = Len(history') - 1]_vars

C6_EmptySnapshotRejected ==
    [][(HandleGenerate /\ Current # Undefined /\ IsTransparent(Current)) =>
          /\ error' \in {PromptError, MaskError}
          /\ ~isLoading'
          /\ UNCHANGED <<encoding, inflight, calls>>]_vars

\* A stroke, undo or clear event handled by the editor.
EditStep ==
    \/ \E p \in Pixels(drawingCanvas) : StartDrawing(p)
    \/ \E p \in Pixels(drawingCanvas) : Draw(p)
    \/ StopDrawing
    \/ Undo
    \/ ClearMask

\* C7: while a submission is in flight no stroke, undo or clear is accepted:
\* such an event leaves the history, the cursor and the drawing surface as
\* they were.
C7_NoEditWhileLoading ==
    [][(isLoading /\ EditStep)
         => UNCHANGED <<history, historyIndex, drawingCanvas>>]_vars

\* C8: at most one submission is pending at any time (awaiting the file read
\* or the collaborator), so at most one collaborator call is unresolved, and
\* the loading flag is set while one is.
C8_AtMostOneInFlight ==
    /\ inflight \in {0, 1}
    /\ encoding + inflight <= 1
    /\ (encoding + inflight = 1) => isLoading

C8_Witness ==
    /\ inflight = 1
    /\ isLoading
    /\ mounted
    /\ historyIndex >= 1

\* A prompt of nothing but whitespace.
IsBlank(s) == \A i \in 1..Len(s) : s[i] = " "

\* C9: a submit with an empty or whitespace-only prompt sets an error, starts
\* no call, leaves the loading flag clear and the history, the cursor and the
\* drawing surface untouched, whatever the mask holds.
C9_BlankPromptRejected ==
    [][(HandleGenerate /\ IsBlank(prompt)) =>
          /\ error' # NoError
          /\ ~isLoading'
          /\ UNCHANGED <<encoding, inflight, calls, maskBase64, request>>
          /\ UNCHANGED <<history, historyIndex, drawingCanvas>>]_vars

C9_Witness ==
    /\ error = PromptError
    /\ prompt = <<" ">>
    /\ ~isLoading
    /\ calls = 0
    /\ HasInk(drawingCanvas)
    /\ HasInk(Current)

\* The steps in which a submission fails: rejected or thrown in
\* handleGenerate, the file read failing, the credential missing, the
\* collaborator answering without an image.
SubmissionFails ==
    \/ HandleGenerate /\ ~isLoading'
    \/ \E o \in ReadOutcomes, key \in Credentials :
          FileRead(o, key) /\ (o = "failed" \/ ~key)
    \/ \E o \in Outcomes \ {"image"} : Resolve(o)

\* C10: handling a failed submission leaves the history, the cursor, the
\* original image and the prompt as they were, shows an error, clears the
\* loading flag and hands nothing to the caller.
C10_FailureKeepsState ==
    [][SubmissionFails =>
          /\ UNCHANGED <<history, historyIndex, natural, imageLoaded, prompt>>
          /\ error' # NoError
          /\ ~isLoading'
          /\ UNCHANGED <<editedImage, delivered, mounted>>]_vars

C10_Witness ==
    /\ error = ServiceError("blocked")
    /\ ~isLoading
    /\ calls = 1
    /\ delivered = 0
    /\ Len(history) >= 2
    /\ HasInk(Current)
    /\ prompt = <<"a">>

\* The message carries the detail as one of its parts.
Mentions(msg, detail) == \E i \in 1..Len(msg) : msg[i] = detail

\* C11: when the service answers without an image and with safety ratings,
\* the error the editor ends up showing contains those ratings: neither the
\* service's re-throw nor the editor's catch drops them.
C11_SafetyDetailsShown ==
    [][Resolve("blocked") => Mentions(error', SafetyRatings)]_vars

C11_Witness ==
    /\ Mentions(error, SafetyRatings)
    /\ calls = 1
    /\ inflight = 0
    /\ ~isLoading
    /\ mounted

\* C12: the mask sent to the collaborator has the image's native width and
\* height, whatever size the surface had when the strokes were painted and
\* whatever resizes came before the submit.
C12_MaskAtNativeSize ==
    calls > 0 =>
        /\ request.data.width = natural[1]
        /\ request.data.height = natural[2]
        /\ Len(request.data.data) = natural[1] * natural[2]

C12_Witness ==
    /\ calls = 1
    /\ inflight = 1
    /\ HasInk(Current)
    /\ Current.width # natural[1]
    /\ Current.width # drawingCanvas.width

\* C13: whenever the image is loaded and no stroke is in progress, the
\* drawing surface shows the current snapshot scaled to the surface's size.
C13_SurfaceShowsSnapshot ==
    (imageLoaded /\ ~isDrawing /\ Current # Undefined) =>
        drawingCanvas = Scale(Current, drawingCanvas.width, drawingCanvas.height)

\* C14: the snapshot a completed erase stroke pushes has no ink where the
\* snapshot under the cursor (which a stroke does not move), scaled to the
\* surface's size, has none.
C14_EraseAddsNoInk ==
    [][(isDrawing /\ ~isDrawing' /\ tool = "eraser" /\ Current # Undefined) =>
          \A i \in Pixels(drawingCanvas) :
              Scale(Current, drawingCanvas.width, drawingCanvas.height).data[i] = 0
                  => history'[Len(history')].data[i] = 0]_vars

\* C15: with the image loaded and no stroke in progress, a submit with a
\* non-blank prompt while the current snapshot has ink passes validation: the
\* submission starts.
C15_InkedSnapshotAccepted ==
    [][(HandleGenerate /\ ~IsBlank(prompt) /\ imageLoaded /\ ~isDrawing
          /\ HasInk(Current))
         => (isLoading' /\ encoding' = encoding + 1)]_vars

\* A submit got past the prompt and emptiness checks.
PassesValidation == HandleGenerate /\ error' \notin {PromptError, MaskError}

\* The result is handed to the caller, once.
Succeeded ==
    /\ delivered' = delivered + 1
    /\ editedImage' # ""
    /\ error' = NoError
    /\ ~isLoading'

\* The submission ends with a message; the caller receives nothing and the
\* controls a submission disables are usable again.
Failed ==
    /\ error' # NoError
    /\ ~isLoading'
    /\ UNCHANGED <<delivered, editedImage>>
    /\ mounted'
    /\ CanSubmit'

\* C16 as stated: every submit that passes validation issues exactly one
\* collaborator call, and the call's resolution clears the loading flag with
\* exactly one outcome, success or failure.
C16_OneCallOneOutcome ==
    [][/\ PassesValidation => encoding' = encoding + 1
       /\ (encoding' < encoding) => calls' = calls + 1
       /\ (inflight' < inflight) => (Succeeded \/ Failed)]_vars

\* C16 as amended: a submit that passes validation issues at most one call:
\* none when building the mask throws, the file read fails or the credential
\* is missing, and then it fails at once; an issued call's resolution clears
\* the loading flag with exactly one outcome, success or failure.
C16_AtMostOneCallOneOutcome ==
    [][/\ PassesValidation =>
            \/ encoding' = encoding + 1 /\ isLoading' /\ UNCHANGED <<calls, inflight>>
            \/ UNCHANGED <<encoding, calls, inflight>> /\ Failed
       /\ (encoding' < encoding) =>
            \/ calls' = calls + 1 /\ inflight' = inflight + 1 /\ isLoading'
            \/ UNCHANGED <<calls, inflight>> /\ Failed
       /\ (inflight' < inflight) =>
            /\ UNCHANGED calls
            /\ Succeeded \/ Failed
            /\ ~(Succeeded /\ Failed)]_vars

C16_Witness ==
    /\ calls = 1
    /\ inflight = 0
    /\ delivered = 0
    /\ mounted
    /\ isLoading
    /\ encoding = 1
    /\ error = NoError

\* C17: whenever the history holds a snapshot, the cursor is a valid index
\* into it.
C17_CursorValidWhenNonEmpty ==
    Len(history) > 0 => (0 <= historyIndex /\ historyIndex < Len(history))

C17_Witness ==
    /\ imageLoaded
    /\ Len(history) = 3
    /\ historyIndex = 1
    /\ history[1].width # history[3].width

\* C18: when image loading completes, the history holds exactly one snapshot,
\* it is blank and the cursor is 0, whatever events the surface handled
\* before.
C18_OneBlankSnapshotAtLoad ==
    [][(~imageLoaded /\ imageLoaded') =>
          /\ Len(history') = 1
          /\ IsTransparent(history'[1])
          /\ historyIndex' = 0]_vars

\* C19: a container resize leaves the history (every snapshot's pixels and
\* dimensions) and the cursor as they were.
C19_ResizeKeepsHistory ==
    [][(\E c \in ContainerSizes : Resize(c))
         => UNCHANGED <<history, historyIndex>>]_vars

C19_Witness ==
    /\ resizes > 0
    /\ imageLoaded
    /\ historyIndex >= 1
    /\ HasInk(Current)
    /\ drawingCanvas.width # Current.width
    /\ HasInk(drawingCanvas)

\* C20: a resize observed before the image has loaded changes neither the
\* surfaces' dimensions or contents nor the history or the cursor.
C20_ResizeBeforeLoadIsNoOp ==
    [][((\E c \in ContainerSizes : Resize(c)) /\ ~imageLoaded)
         => UNCHANGED <<drawingCanvas, imageCanvas, history, historyIndex>>]_vars

C20_Witness ==
    /\ resizes > 0
    /\ ~imageLoaded
    /\ HasInk(drawingCanvas)
    /\ Len(history) >= 1
    /\ imageCanvas = DefaultCanvasSize

\* An integer rectangle exists that fits the container, touches one of its
\* sides and has exactly the image's proportions.
FitsExactly(nat, cont) ==
    \E w \in 1..cont[1], h \in 1..cont[2] :
        /\ w = cont[1] \/ h = cont[2]
        /\ w * nat[2] = h * nat[1]

\* C21: once the image is loaded, the dimensions given to both surfaces fit
\* the container, equal it in width or in height, and keep the image's aspect
\* ratio exactly (rw * ih = rh * iw); stated for the images and containers
\* for which such a rectangle of whole pixels exists.
C21_RenderRectangle ==
    (imageLoaded /\ FitsExactly(natural, container)) =>
        LET rw == drawingCanvas.width
            rh == drawingCanvas.height
        IN /\ imageCanvas = <<rw, rh>>
           /\ rw <= container[1]
           /\ rh <= container[2]
           /\ rw = container[1] \/ rh = container[2]
           /\ rw * natural[2] = rh * natural[1]

=============================================================================
